---------------------------- MODULE Spec2Model ----------------------------
(***************************************************************************)
(* Model of argentina-bestvaluegpu: the ranking page (src/src/app.js) and  *)
(* the header-sort variant of the same page (src/unnamed/part_001).        *)
(*                                                                         *)
(* JavaScript values are modelled as records [t, n, d, s]:                 *)
(*   t = "num"   a finite number, the reduced fraction n/d with d > 0      *)
(*   t = "pinf", "ninf", "nan"   +Infinity, -Infinity, NaN                 *)
(*   t = "str"   a string, s its sequence of characters                    *)
(*   t = "undef" undefined (a missing property)                            *)
(* Finite arithmetic is exact (rationals): the rounding of IEEE doubles is *)
(* abstracted, the special values and their propagation are not.           *)
(***************************************************************************)
EXTENDS Integers, Sequences, FiniteSets, TLC

----------------------------------------------------------------------------
(* JavaScript numbers                                                      *)

Abs(i) == IF i < 0 THEN -i ELSE i

RECURSIVE GCD(_, _)
GCD(a, b) == IF b = 0 THEN a ELSE GCD(b, a % b)

Num(n, d) ==
  LET g == GCD(Abs(n), Abs(d))
      sg == IF d < 0 THEN -1 ELSE 1
  IN  [t |-> "num", n |-> sg * (n \div g), d |-> sg * (d \div g), s |-> <<>>]

IntVal(i) == [t |-> "num", n |-> i, d |-> 1, s |-> <<>>]
PInf == [t |-> "pinf", n |-> 0, d |-> 1, s |-> <<>>]
NInf == [t |-> "ninf", n |-> 0, d |-> 1, s |-> <<>>]
NaN == [t |-> "nan", n |-> 0, d |-> 1, s |-> <<>>]
Undefined == [t |-> "undef", n |-> 0, d |-> 1, s |-> <<>>]
Str(chars) == [t |-> "str", n |-> 0, d |-> 1, s |-> chars]

IsNumberType(v) == v.t \in {"num", "pinf", "ninf", "nan"}
IsFinite(v) == v.t = "num"

\* sign of a non-NaN number: -1, 0 or 1
Sign(x) ==
  CASE x.t = "pinf" -> 1
    [] x.t = "ninf" -> -1
    [] OTHER -> IF x.n > 0 THEN 1 ELSE IF x.n < 0 THEN -1 ELSE 0

InfOfSign(sg) == IF sg < 0 THEN NInf ELSE PInf

\* ToNumber on the operands arithmetic meets here: undefined becomes NaN
ToNumber(v) == IF v.t = "undef" THEN NaN ELSE v

JsMul(a, b) ==
  LET x == ToNumber(a)
      y == ToNumber(b)
  IN  IF x.t = "nan" \/ y.t = "nan" THEN NaN
      ELSE IF IsFinite(x) /\ IsFinite(y) THEN Num(x.n * y.n, x.d * y.d)
      ELSE IF Sign(x) = 0 \/ Sign(y) = 0 THEN NaN
      ELSE InfOfSign(Sign(x) * Sign(y))

JsDiv(a, b) ==
  LET x == ToNumber(a)
      y == ToNumber(b)
  IN  IF x.t = "nan" \/ y.t = "nan" THEN NaN
      ELSE IF ~IsFinite(x)
        THEN IF ~IsFinite(y) THEN NaN
             ELSE InfOfSign(Sign(x) * (IF Sign(y) < 0 THEN -1 ELSE 1))
      ELSE IF ~IsFinite(y) THEN IntVal(0)
      ELSE IF y.n = 0
        THEN IF x.n = 0 THEN NaN ELSE InfOfSign(Sign(x))
      ELSE Num(x.n * y.d, x.d * y.n)

JsSub(a, b) ==
  LET x == ToNumber(a)
      y == ToNumber(b)
  IN  IF x.t = "nan" \/ y.t = "nan" THEN NaN
      ELSE IF ~IsFinite(x)
        THEN IF x.t = y.t THEN NaN ELSE x
      ELSE IF ~IsFinite(y) THEN InfOfSign(-Sign(y))
      ELSE Num(x.n * y.d - y.n * x.d, x.d * y.d)

\* x < y on numbers; false as soon as one side is NaN
NumLess(x, y) ==
  IF x.t = "nan" \/ y.t = "nan" THEN FALSE
  ELSE IF x.t = "pinf" \/ y.t = "ninf" THEN FALSE
  ELSE IF x.t = "ninf" \/ y.t = "pinf" THEN TRUE
  ELSE x.n * y.d < y.n * x.d

JsGreaterZero(a) == NumLess(IntVal(0), ToNumber(a))

----------------------------------------------------------------------------
(* JavaScript strings: sequences of one-character strings                  *)

DigitChars == <<"0", "1", "2", "3", "4", "5", "6", "7", "8", "9">>
UpperChars == <<"A", "B", "C", "D", "E", "F", "G", "H", "I", "J", "K", "L", "M",
                "N", "O", "P", "Q", "R", "S", "T", "U", "V", "W", "X", "Y", "Z">>
LowerChars == <<"a", "b", "c", "d", "e", "f", "g", "h", "i", "j", "k", "l", "m",
                "n", "o", "p", "q", "r", "s", "t", "u", "v", "w", "x", "y", "z">>

IndexIn(seq, c) == CHOOSE i \in 1..Len(seq) : seq[i] = c
CharsOf(seq) == {seq[i] : i \in 1..Len(seq)}

\* UTF-16 code unit of the characters the model uses
CharCodes ==
  (" " :> 32) @@ ("-" :> 45) @@ ("." :> 46) @@ ("/" :> 47)
  @@ [c \in CharsOf(DigitChars) |-> 47 + IndexIn(DigitChars, c)]
  @@ [c \in CharsOf(UpperChars) |-> 64 + IndexIn(UpperChars, c)]
  @@ [c \in CharsOf(LowerChars) |-> 96 + IndexIn(LowerChars, c)]

CharCode(c) == CharCodes[c]

LowerOfUpper == [c \in CharsOf(UpperChars) |-> LowerChars[IndexIn(UpperChars, c)]] @@ <<>>

LowerChar(c) == IF c \in DOMAIN LowerOfUpper THEN LowerOfUpper[c] ELSE c

\* String.prototype.toLowerCase
RECURSIVE toLowerCase(_)
toLowerCase(chars) ==
  IF chars = <<>> THEN <<>> ELSE <<LowerChar(Head(chars))>> \o toLowerCase(Tail(chars))

IsWhiteSpace(c) == c = " "

\* String.prototype.trim
RECURSIVE trimStart(_)
trimStart(chars) ==
  IF chars # <<>> /\ IsWhiteSpace(Head(chars)) THEN trimStart(Tail(chars)) ELSE chars

RECURSIVE trimEnd(_)
trimEnd(chars) ==
  IF chars # <<>> /\ IsWhiteSpace(chars[Len(chars)])
    THEN trimEnd(SubSeq(chars, 1, Len(chars) - 1))
    ELSE chars

trim(chars) == trimEnd(trimStart(chars))

\* String.prototype.includes
includes(chars, q) ==
  \E i \in 0..(Len(chars) - Len(q)) : SubSeq(chars, i + 1, i + Len(q)) = q

\* a < b on strings: lexicographic on code units, a proper prefix is smaller
RECURSIVE StrLess(_, _)
StrLess(a, b) ==
  IF b = <<>> THEN FALSE
  ELSE IF a = <<>> THEN TRUE
  ELSE IF CharCode(Head(a)) < CharCode(Head(b)) THEN TRUE
  ELSE IF CharCode(Head(a)) > CharCode(Head(b)) THEN FALSE
  ELSE StrLess(Tail(a), Tail(b))

RECURSIVE NatToString(_)
NatToString(n) ==
  IF n < 10 THEN <<DigitChars[n + 1]>>
  ELSE NatToString(n \div 10) \o <<DigitChars[(n % 10) + 1]>>

\* Number::toString for the finite numbers with at most two decimals
FiniteToString(x) ==
  LET m == Abs(x.n) * (100 \div x.d)
      frac == m % 100
      fracChars == IF frac = 0 THEN <<>>
                   ELSE IF frac % 10 = 0 THEN <<".", DigitChars[(frac \div 10) + 1]>>
                   ELSE <<".", DigitChars[(frac \div 10) + 1], DigitChars[(frac % 10) + 1]>>
  IN  (IF x.n < 0 THEN <<"-">> ELSE <<>>) \o NatToString(m \div 100) \o fracChars

\* String(value)
ToStringJs(v) ==
  CASE v.t = "str" -> v.s
    [] v.t = "undef" -> <<"u", "n", "d", "e", "f", "i", "n", "e", "d">>
    [] v.t = "nan" -> <<"N", "a", "N">>
    [] v.t = "pinf" -> <<"I", "n", "f", "i", "n", "i", "t", "y">>
    [] v.t = "ninf" -> <<"-", "I", "n", "f", "i", "n", "i", "t", "y">>
    [] OTHER -> FiniteToString(v)

\* the relational operator < of compareValues' operands: both numbers or both strings
JsLess(a, b) ==
  IF IsNumberType(a) /\ IsNumberType(b) THEN NumLess(a, b)
  ELSE StrLess(ToStringJs(a), ToStringJs(b))

\* property read: obj[key], undefined when the object has no such property
Get(obj, key) == IF key \in DOMAIN obj THEN obj[key] ELSE Undefined

----------------------------------------------------------------------------
(* Array.prototype.sort(comparefn) (ECMAScript): a stable sort when the    *)
(* comparator is consistent on the array's elements, an implementation-    *)
(* defined order (any permutation) when it is not.                         *)

\* SortCompare: the comparator's result v is read as a number, NaN counts as +0
SortCompareSign(v) ==
  LET x == ToNumber(v)
  IN  IF x.t = "nan" THEN 0 ELSE Sign(x)

SeqOfPerm(arr, p) == [k \in 1..Len(arr) |-> arr[p[k]]]

Perms(n) == {p \in [1..n -> 1..n] : \A i, j \in 1..n : i # j => p[i] # p[j]}

\* c[<<i, j>>]: the sign of comparefn(arr[i], arr[j])
ConsistentComparator(n, c) ==
  /\ \A i \in 1..n : c[<<i, i>>] = 0
  /\ \A i, j \in 1..n : c[<<i, j>>] = -c[<<j, i>>]
  /\ \A i, j, k \in 1..n :
       /\ (c[<<i, j>>] = 0 /\ c[<<j, k>>] = 0) => c[<<i, k>>] = 0
       /\ (c[<<i, j>>] < 0 /\ c[<<j, k>>] < 0) => c[<<i, k>>] < 0
       /\ (c[<<i, j>>] > 0 /\ c[<<j, k>>] > 0) => c[<<i, k>>] > 0

StableSorted(arr, c) ==
  LET n == Len(arr)
      before(j, i) == c[<<j, i>>] < 0 \/ (c[<<j, i>>] = 0 /\ j < i)
      rank == [i \in 1..n |-> 1 + Cardinality({j \in 1..n : j # i /\ before(j, i)})]
  IN  [k \in 1..n |-> arr[CHOOSE i \in 1..n : rank[i] = k]]

\* the arrays arr.sort(comparefn) can leave, c tabulating comparefn on arr
SortOutcomes(arr, c) ==
  IF ConsistentComparator(Len(arr), c)
    THEN {StableSorted(arr, c)}
    ELSE {SeqOfPerm(arr, p) : p \in Perms(Len(arr))}

IndexPairs(arr) == (1..Len(arr)) \X (1..Len(arr))

\* Array.prototype.filter
RECURSIVE FilterSeq(_, _)
FilterSeq(arr, keep) ==
  IF arr = <<>> THEN <<>>
  ELSE IF Head(arr) \in keep THEN <<Head(arr)>> \o FilterSeq(Tail(arr), keep)
  ELSE FilterSeq(Tail(arr), keep)

Elems(arr) == {arr[i] : i \in 1..Len(arr)}

----------------------------------------------------------------------------
(* src/src/app.js: metrics and ranking                                     *)

USD_ARS == 1000
ENERGY_ARS_PER_KWH == 80

\* gpuMetrics without its guard on the sign of dailyNetArs
gpuMetricsNoGuard(gpu) ==
  LET efficiency == JsDiv(gpu.hashrate, gpu.power)
      dailyRevenueArs == JsMul(gpu.dailyProfitUsd, IntVal(USD_ARS))
      dailyEnergyKwh == JsMul(JsDiv(gpu.power, IntVal(1000)), IntVal(24))
      dailyEnergyCostArs == JsMul(dailyEnergyKwh, IntVal(ENERGY_ARS_PER_KWH))
      dailyNetArs == JsSub(dailyRevenueArs, dailyEnergyCostArs)
      roiDays == JsDiv(gpu.priceArs, dailyNetArs)
      score == JsMul(dailyNetArs, efficiency)
  IN  [efficiency |-> efficiency,
       dailyRevenueArs |-> dailyRevenueArs,
       dailyEnergyCostArs |-> dailyEnergyCostArs,
       dailyNetArs |-> dailyNetArs,
       roiDays |-> roiDays,
       score |-> score]

gpuMetrics(gpu) ==
  LET efficiency == JsDiv(gpu.hashrate, gpu.power)
      dailyRevenueArs == JsMul(gpu.dailyProfitUsd, IntVal(USD_ARS))
      dailyEnergyKwh == JsMul(JsDiv(gpu.power, IntVal(1000)), IntVal(24))
      dailyEnergyCostArs == JsMul(dailyEnergyKwh, IntVal(ENERGY_ARS_PER_KWH))
      dailyNetArs == JsSub(dailyRevenueArs, dailyEnergyCostArs)
      roiDays == IF JsGreaterZero(dailyNetArs) THEN JsDiv(gpu.priceArs, dailyNetArs) ELSE PInf
      score == JsMul(dailyNetArs, efficiency)
  IN  [efficiency |-> efficiency,
       dailyRevenueArs |-> dailyRevenueArs,
       dailyEnergyCostArs |-> dailyEnergyCostArs,
       dailyNetArs |-> dailyNetArs,
       roiDays |-> roiDays,
       score |-> score]

\* rankComparator with the operands of its roi case exchanged
rankComparatorRoiSwapped(sort, a, b) ==
  LET ma == gpuMetrics(a)
      mb == gpuMetrics(b)
  IN  CASE sort = Str(<<"h", "a", "s", "h", "r", "a", "t", "e">>) ->
             JsSub(Get(mb, "hashrate"), Get(ma, "hashrate"))
        [] sort = Str(<<"e", "f", "f", "i", "c", "i", "e", "n", "c", "y">>) ->
             JsSub(Get(mb, "efficiency"), Get(ma, "efficiency"))
        [] sort = Str(<<"p", "r", "i", "c", "e">>) ->
             JsSub(Get(ma, "priceArs"), Get(mb, "priceArs"))
        [] sort = Str(<<"r", "o", "i">>) ->
             JsSub(Get(mb, "roiDays"), Get(ma, "roiDays"))
        [] OTHER ->
             JsSub(Get(mb, "score"), Get(ma, "score"))

\* the comparator of applyFilters' result.sort, for the sort select's value
\* (Undefined when the select is not in the page)
rankComparator(sort, a, b) ==
  LET ma == gpuMetrics(a)
      mb == gpuMetrics(b)
  IN  CASE sort = Str(<<"h", "a", "s", "h", "r", "a", "t", "e">>) ->
             JsSub(Get(mb, "hashrate"), Get(ma, "hashrate"))
        [] sort = Str(<<"e", "f", "f", "i", "c", "i", "e", "n", "c", "y">>) ->
             JsSub(Get(mb, "efficiency"), Get(ma, "efficiency"))
        [] sort = Str(<<"p", "r", "i", "c", "e">>) ->
             JsSub(Get(ma, "priceArs"), Get(mb, "priceArs"))
        [] sort = Str(<<"r", "o", "i">>) ->
             JsSub(Get(ma, "roiDays"), Get(mb, "roiDays"))
        [] OTHER ->
             JsSub(Get(mb, "score"), Get(ma, "score"))

\* the truthiness of a string-or-undefined value
Truthy(v) == v.t = "str" /\ v.s # <<>>

\* searchTerm without the trim
searchTermNoTrim(searchValue) ==
  IF searchValue.t = "undef" THEN Undefined
  ELSE Str(toLowerCase(searchValue.s))

\* the search term applyFilters filters by: searchInput?.value.toLowerCase().trim()
searchTerm(searchValue) ==
  IF searchValue.t = "undef" THEN Undefined
  ELSE Str(trim(toLowerCase(searchValue.s)))

\* applyFilters up to the sort: the two filters, in the order of the list
filterGpus(list, searchValue, algo) ==
  LET search == searchTerm(searchValue)
      bySearch == IF Truthy(search)
                    THEN FilterSeq(list, {g \in Elems(list) :
                                             includes(toLowerCase(g.name.s), search.s)})
                    ELSE list
  IN  IF Truthy(algo)
        THEN FilterSeq(bySearch, {g \in Elems(bySearch) : g.algo = algo})
        ELSE bySearch

\* the arrays applyFilters can hand to buildTable
applyFiltersOutcomes(list, searchValue, algo, sort) ==
  LET filtered == filterGpus(list, searchValue, algo)
      \* (@@ <<>> makes TLC tabulate the comparisons once)
      c == [q \in IndexPairs(filtered) |->
              SortCompareSign(rankComparator(sort, filtered[q[1]], filtered[q[2]]))] @@ <<>>
  IN  SortOutcomes(filtered, c)

\* resolveApiCandidates: the endpoints to try, in order, each once
RECURSIVE Dedup(_)
Dedup(list) ==
  IF list = <<>> THEN <<>>
  ELSE LET init == Dedup(SubSeq(list, 1, Len(list) - 1))
           last == list[Len(list)]
       IN  IF last \in Elems(init) THEN init ELSE Append(init, last)

\* explicit.replace(/\/$/, "")
stripTrailingSlash(chars) ==
  IF chars # <<>> /\ chars[Len(chars)] = "/" THEN SubSeq(chars, 1, Len(chars) - 1) ELSE chars

ApiGpusEndpoint == <<"/", "a", "p", "i", "/", "g", "p", "u", "s">>
DataFileEndpoint == <<"d", "a", "t", "a", "/", "g", "p", "u", "s", ".", "j", "s", "o", "n">>

\* resolveApiCandidates without the Set that drops a repeated endpoint
resolveApiCandidatesNoDedup(query, base) ==
  LET explicit == IF Truthy(query) THEN query ELSE base
      first == IF Truthy(explicit)
                 THEN <<stripTrailingSlash(explicit.s) \o <<"/", "g", "p", "u", "s">>>>
                 ELSE <<>>
  IN  first \o <<ApiGpusEndpoint, DataFileEndpoint>>

resolveApiCandidates(query, base) ==
  LET explicit == IF Truthy(query) THEN query ELSE base
      first == IF Truthy(explicit)
                 THEN <<stripTrailingSlash(explicit.s) \o <<"/", "g", "p", "u", "s">>>>
                 ELSE <<>>
  IN  Dedup(first \o <<ApiGpusEndpoint, DataFileEndpoint>>)

----------------------------------------------------------------------------
(* State                                                                   *)

VARIABLES
  \* src/src/app.js
  gpus,             \* let gpus
  lastDataSource,   \* let lastDataSource
  queryApi,         \* the ?api= query parameter (Undefined when not given)
  windowApiBase,    \* window.BESTVALUEGPU_API_BASE (Undefined when not set)
  searchInput,      \* #searchInput.value, Undefined when the page has no such element
  algoSelect,       \* #algoSelect.value, likewise
  sortSelect,       \* #sortSelect.value, likewise
  tableContainer,   \* what #tableContainer shows; "absent" when the page has none
  result,           \* the array applyFilters last handed to buildTable
  pc,               \* where loadGpus stands
  candidates,       \* fetchGpusFromSources: the endpoints of its for loop
  endpointIdx,      \* the loop's position in candidates
  errors,           \* fetchGpusFromSources: const errors
  fetchLog,         \* the endpoints fetch() was called with, in call order
  thrown,           \* the lines of the Error fetchGpusFromSources threw, if any
  \* src/unnamed/part_001
  gpuData,
  currentDisplayed,
  currentSortKey,
  currentSortOrder,
  hSearchInput,     \* #searchInput.value of the header-sort page
  hPc,              \* where its loadGpus stands
  \* gpuMetrics applied to one record
  mGpu, mOut,
  \* compareValues applied to three records
  cRecs, cKey, cOut

appVars == <<gpus, lastDataSource, queryApi, windowApiBase, searchInput, algoSelect,
             sortSelect, tableContainer, result, pc, candidates, endpointIdx, errors,
             fetchLog, thrown>>
headerVars == <<gpuData, currentDisplayed, currentSortKey, currentSortOrder,
                hSearchInput, hPc>>
metricsVars == <<mGpu, mOut>>
compareVars == <<cRecs, cKey, cOut>>
vars == <<appVars, headerVars, metricsVars, compareVars>>

----------------------------------------------------------------------------
(* Inputs: the records a data source can serve and what a user can enter   *)

Gpu(name, algo, hashrate, power, priceArs, dailyProfitUsd) ==
  [name |-> Str(name), algo |-> Str(algo), hashrate |-> hashrate, power |-> power,
   priceArs |-> priceArs, dailyProfitUsd |-> dailyProfitUsd]

Ethash == <<"e", "t", "h", "a", "s", "h">>
Kawpow == <<"k", "a", "w", "p", "o", "w">>

\* profitable: net 616 a day, ROI 2 days, score 308
Rtx3060 == Gpu(<<"R", "T", "X", " ", "3", "0", "6", "0">>, Ethash,
               IntVal(100), IntVal(200), IntVal(1232), IntVal(1))
\* loses money: net -392 a day
Rx580 == Gpu(<<"R", "X", " ", "5", "8", "0">>, Ethash,
             IntVal(50), IntVal(100), IntVal(616), Num(-1, 5))
\* breaks even exactly: net 0 a day
Gtx1660 == Gpu(<<"G", "T", "X", " ", "1", "6", "6", "0">>, Kawpow,
               IntVal(200), IntVal(250), IntVal(960), Num(12, 25))
\* profitable: net 760 a day, ROI 1 day, score 364.8
Rtx3070 == Gpu(<<"r", "t", "x", " ", "3", "0", "7", "0">>, Kawpow,
               IntVal(60), IntVal(125), IntVal(760), IntVal(1))
\* same hashrate and score as Rtx3060, same ROI as Rtx3070
Rtx3060Ti == Gpu(<<"R", "T", "X", " ", "3", "0", "6", "0", " ", "T", "i">>, Ethash,
                 IntVal(100), IntVal(200), IntVal(616), IntVal(1))
\* a record the data model forbids: no power draw
Gt710 == Gpu(<<"G", "T", " ", "7", "1", "0">>, Ethash,
             IntVal(10), IntVal(0), IntVal(100), IntVal(0))

Catalogue == {Rtx3060, Rx580, Gtx1660, Rtx3070, Rtx3060Ti, Gt710}

MaxGpus == 3

\* the arrays a source can serve: up to MaxGpus distinct records, in any order
DataSetsOver(records) ==
  UNION {{q \in [1..n -> records] : \A i, j \in 1..n : i # j => q[i] # q[j]} :
           n \in 0..MaxGpus}

DataSets == DataSetsOver(Catalogue)

\* the same, of records the data model allows
ValidDataSets == DataSetsOver(Catalogue \ {Gt710})

SmallDataSets == {<<>>, <<Rx580, Rtx3060>>, <<Rtx3060Ti, Gt710>>}

SortHashrate == Str(<<"h", "a", "s", "h", "r", "a", "t", "e">>)
SortEfficiency == Str(<<"e", "f", "f", "i", "c", "i", "e", "n", "c", "y">>)
SortPrice == Str(<<"p", "r", "i", "c", "e">>)
SortRoi == Str(<<"r", "o", "i">>)
SortBestValue == Str(<<"b", "e", "s", "t", "V", "a", "l", "u", "e">>)
SortUnknown == Str(<<"n", "a", "m", "e">>)

SearchValues == {Str(<<>>), Str(<<" ">>), Str(<<" ", "R", "T", "X">>), Str(<<"x", " ", "5">>)}
AlgoValues == {Str(<<>>), Str(Ethash), Str(Kawpow)}
SortValues == {SortHashrate, SortEfficiency, SortPrice, SortRoi, SortBestValue, SortUnknown}

QueryApiValues == {Undefined, Str(<<"/", "a", "p", "i", "/">>), Str(<<"/", "v", "2">>)}
WindowApiBaseValues == {Undefined, Str(<<"/", "a", "p", "i">>)}

----------------------------------------------------------------------------
(* src/src/app.js: the page                                                *)

\* applyFilters: read the three controls, filter, sort, buildTable(result)
applyFilters(list, search, algo, sort) ==
  /\ result' \in applyFiltersOutcomes(list, search, algo, sort)
  /\ tableContainer' = IF tableContainer = "absent" THEN "absent"
                       ELSE IF result' = <<>> THEN "empty"
                       ELSE "table"

\* the DOMContentLoaded listener: registers applyFilters on the controls and calls
\* loadGpus, which runs to the first await of fetchGpusFromSources
DOMContentLoaded ==
  /\ pc = "start"
  /\ tableContainer' = IF tableContainer = "absent" THEN "absent" ELSE "loading"
  /\ candidates' = resolveApiCandidates(queryApi, windowApiBase)
  /\ endpointIdx' = 1
  /\ errors' = <<>>
  /\ fetchLog' = <<candidates'[1]>>
  /\ pc' = "awaitFetch"
  /\ UNCHANGED <<gpus, lastDataSource, queryApi, windowApiBase, headerVars, metricsVars,
                 compareVars, searchInput, algoSelect,
                 sortSelect, result, thrown>>

\* the catch block of the for loop: record the failure, go on with the next
\* endpoint; after the last one throw, and loadGpus' catch shows the error
attemptFails(message) ==
  LET endpoint == candidates[endpointIdx]
      errs == Append(errors, [endpoint |-> endpoint, message |-> message])
  IN  /\ errors' = errs
      /\ IF endpointIdx < Len(candidates)
           THEN /\ endpointIdx' = endpointIdx + 1
                /\ fetchLog' = Append(fetchLog, candidates[endpointIdx + 1])
                /\ pc' = "awaitFetch"
                /\ UNCHANGED <<thrown, tableContainer>>
           ELSE /\ thrown' = errs
                /\ tableContainer' = IF tableContainer = "absent" THEN "absent" ELSE "error"
                /\ pc' = "failed"
                /\ UNCHANGED <<endpointIdx, fetchLog>>
      /\ UNCHANGED <<gpus, lastDataSource, queryApi, windowApiBase, headerVars, metricsVars,
                 compareVars, searchInput,
                     algoSelect, sortSelect, result, candidates>>

\* await fetch(endpoint) rejects
FetchRejects ==
  /\ pc = "awaitFetch"
  /\ attemptFails("Failed to fetch")

\* await fetch(endpoint) resolves with a response that is not ok
FetchNotOk ==
  /\ pc = "awaitFetch"
  /\ attemptFails("404 Not Found")

\* await fetch(endpoint) resolves with an ok response
FetchOk ==
  /\ pc = "awaitFetch"
  /\ pc' = "awaitJson"
  /\ UNCHANGED <<gpus, lastDataSource, queryApi, windowApiBase, headerVars, metricsVars,
                 compareVars, searchInput, algoSelect,
                 sortSelect, tableContainer, result, candidates, endpointIdx, errors,
                 fetchLog, thrown>>

\* await response.json() rejects: the body is no JSON
JsonRejects ==
  /\ pc = "awaitJson"
  /\ attemptFails("Unexpected token")

\* await response.json() resolves with something that is no array
JsonNotArray ==
  /\ pc = "awaitJson"
  /\ attemptFails("Formato de datos invalido")

\* await response.json() resolves with an array: fetchGpusFromSources returns it,
\* loadGpus stores it and calls applyFilters
JsonArray(data) ==
  /\ pc = "awaitJson"
  /\ lastDataSource' = candidates[endpointIdx]
  /\ gpus' = data
  /\ applyFilters(data, searchInput, algoSelect, sortSelect)
  /\ pc' = "done"
  /\ UNCHANGED <<queryApi, windowApiBase, headerVars, metricsVars,
                 compareVars, searchInput, algoSelect, sortSelect, candidates,
                 endpointIdx, errors, fetchLog, thrown>>

\* an input event on #searchInput
SearchInputEvent(value) ==
  /\ pc # "start"
  /\ searchInput # Undefined
  /\ searchInput' = value
  /\ applyFilters(gpus, value, algoSelect, sortSelect)
  /\ UNCHANGED <<gpus, lastDataSource, queryApi, windowApiBase, headerVars, metricsVars,
                 compareVars, algoSelect, sortSelect, pc,
                 candidates, endpointIdx, errors, fetchLog, thrown>>

\* an input/change event on #algoSelect
AlgoSelectEvent(value) ==
  /\ pc # "start"
  /\ algoSelect # Undefined
  /\ algoSelect' = value
  /\ applyFilters(gpus, searchInput, value, sortSelect)
  /\ UNCHANGED <<gpus, lastDataSource, queryApi, windowApiBase, headerVars, metricsVars,
                 compareVars, searchInput, sortSelect, pc,
                 candidates, endpointIdx, errors, fetchLog, thrown>>

\* an input/change event on #sortSelect
SortSelectEvent(value) ==
  /\ pc # "start"
  /\ sortSelect # Undefined
  /\ sortSelect' = value
  /\ applyFilters(gpus, searchInput, algoSelect, value)
  /\ UNCHANGED <<gpus, lastDataSource, queryApi, windowApiBase, headerVars, metricsVars,
                 compareVars, searchInput, algoSelect, pc,
                 candidates, endpointIdx, errors, fetchLog, thrown>>

\* the listener itself, for an event whose new value the control already holds
ApplyFiltersListener ==
  /\ pc = "event"
  /\ applyFilters(gpus, searchInput, algoSelect, sortSelect)
  /\ pc' = "done"
  /\ UNCHANGED <<gpus, lastDataSource, queryApi, windowApiBase, headerVars, metricsVars,
                 compareVars, searchInput, algoSelect, sortSelect, candidates, endpointIdx,
                 errors, fetchLog, thrown>>

----------------------------------------------------------------------------
(* src/unnamed/part_001: the header-sort page                              *)

conversionRate == 350

\* Math.round: the nearest integer, a tie going up; NaN and the infinities stay
MathRound(a) ==
  LET x == ToNumber(a)
  IN  IF ~IsFinite(x) THEN x ELSE IntVal((2 * x.n + x.d) \div (2 * x.d))

\* Number(x.toFixed(2)): the nearest multiple of 1/100, a tie going away from
\* zero; NaN and the infinities stay
ToFixed2(a) ==
  LET x == ToNumber(a)
      m == (200 * Abs(x.n) + x.d) \div (2 * x.d)
  IN  IF ~IsFinite(x) THEN x ELSE Num((IF x.n < 0 THEN -m ELSE m), 100)

enrichGpu(gpu) ==
  LET efficiency == ToFixed2(JsDiv(gpu.hashrate, gpu.power))
      dailyProfitArs == JsMul(gpu.dailyProfitUsd, IntVal(conversionRate))
      roi == MathRound(JsDiv(gpu.priceArs, dailyProfitArs))
  IN  [k \in DOMAIN gpu \cup {"efficiency", "dailyProfit", "roi"} |->
         CASE k = "efficiency" -> efficiency
           [] k = "dailyProfit" -> MathRound(dailyProfitArs)
           [] k = "roi" -> roi
           [] OTHER -> gpu[k]]

enrichGpuData(data) == [i \in 1..Len(data) |-> enrichGpu(data[i])]

\* compareValues(key, order)(a, b)
compareValues(key, order, a, b) ==
  LET rawA == Get(a, key)
      rawB == Get(b, key)
      isNumber == IsNumberType(rawA) /\ IsNumberType(rawB)
      valueA == IF isNumber THEN rawA ELSE Str(toLowerCase(ToStringJs(rawA)))
      valueB == IF isNumber THEN rawB ELSE Str(toLowerCase(ToStringJs(rawB)))
  IN  IF JsLess(valueA, valueB) THEN (IF order = "asc" THEN IntVal(-1) ELSE IntVal(1))
      ELSE IF JsLess(valueB, valueA) THEN (IF order = "asc" THEN IntVal(1) ELSE IntVal(-1))
      ELSE IntVal(0)

\* null, and a th that has no data-key
NoKey == ""
HeaderKeys == {"name", "hashrate", "efficiency", "roi"}
QueryValues == {Str(<<>>), Str(<<"r", "t", "x">>), Str(<<"X", " ", "5">>)}

\* the arrays list.sort(compareValues(key, order)) can leave
sortByKeyOutcomes(list, key, order) ==
  LET c == [q \in IndexPairs(list) |->
              SortCompareSign(compareValues(key, order, list[q[1]], list[q[2]]))] @@ <<>>
  IN  SortOutcomes(list, c)

\* gpuData.filter(gpu => gpu.name.toLowerCase().includes(query))
searchFilter(data, searchValue) ==
  LET query == toLowerCase(searchValue.s)
  IN  FilterSeq(data, {g \in Elems(data) : includes(toLowerCase(g.name.s), query)})

\* the DOMContentLoaded listener: registers the listeners, loadGpus runs to its
\* await fetch
HDOMContentLoaded ==
  /\ hPc = "start"
  /\ hPc' = "awaitFetch"
  /\ UNCHANGED <<gpuData, currentDisplayed, currentSortKey, currentSortOrder, hSearchInput, appVars, metricsVars,
                 compareVars>>

\* await fetch("data/gpus.json") resolves
HFetchResolves ==
  /\ hPc = "awaitFetch"
  /\ hPc' = "awaitJson"
  /\ UNCHANGED <<gpuData, currentDisplayed, currentSortKey, currentSortOrder, hSearchInput, appVars, metricsVars,
                 compareVars>>

\* fetch or response.json() rejects, or the body is no array (data.map throws):
\* loadGpus' catch logs it
HLoadFails ==
  /\ hPc \in {"awaitFetch", "awaitJson"}
  /\ hPc' = "failed"
  /\ UNCHANGED <<gpuData, currentDisplayed, currentSortKey, currentSortOrder, hSearchInput, appVars, metricsVars,
                 compareVars>>

\* await response.json() resolves with an array
HJsonResolves(data) ==
  /\ hPc = "awaitJson"
  /\ gpuData' = enrichGpuData(data)
  /\ currentDisplayed' = gpuData'
  /\ hPc' = "done"
  /\ UNCHANGED <<currentSortKey, currentSortOrder, hSearchInput, appVars, metricsVars,
                 compareVars>>

\* an input event on #searchInput: applySearchFilter
HSearchInputEvent(value) ==
  /\ hPc # "start"
  /\ hSearchInput # Undefined
  /\ hSearchInput' = value
  /\ LET filtered == searchFilter(gpuData, value)
     IN  IF currentSortKey # NoKey
           THEN currentDisplayed' \in
                  sortByKeyOutcomes(filtered, currentSortKey, currentSortOrder)
           ELSE currentDisplayed' = filtered
  /\ UNCHANGED <<gpuData, currentSortKey, currentSortOrder, hPc, appVars, metricsVars,
                 compareVars>>

\* a click on a th whose data-key is sortKey
HeaderClick(sortKey) ==
  /\ hPc # "start"
  /\ IF sortKey = NoKey
       THEN UNCHANGED <<currentSortKey, currentSortOrder, currentDisplayed>>
       ELSE /\ IF currentSortKey = sortKey
                 THEN /\ currentSortOrder' = IF currentSortOrder = "asc" THEN "desc" ELSE "asc"
                      /\ UNCHANGED currentSortKey
                 ELSE /\ currentSortKey' = sortKey
                      /\ currentSortOrder' = "asc"
            /\ currentDisplayed' \in
                 sortByKeyOutcomes(currentDisplayed, sortKey, currentSortOrder')
  /\ UNCHANGED <<gpuData, hSearchInput, hPc, appVars, metricsVars,
                 compareVars>>

----------------------------------------------------------------------------
(* gpuMetrics and compareValues on their own                               *)

MetricInputs ==
  [name : {Str(<<"X">>)}, algo : {Str(Ethash)},
   hashrate : {IntVal(50), IntVal(100)},
   power : {IntVal(0), IntVal(100), IntVal(125), IntVal(200), IntVal(250)},
   priceArs : {IntVal(0), IntVal(616), IntVal(500000)},
   dailyProfitUsd : {Num(-1, 5), IntVal(0), Num(12, 25), IntVal(1), Undefined}]

ComputeMetrics ==
  /\ mOut = <<>>
  /\ mOut' = <<gpuMetrics(mGpu)>>
  /\ UNCHANGED <<mGpu, appVars, headerVars, compareVars>>

\* the values a compared property can hold; a record without the property reads
\* as undefined
CompareValuesDomain ==
  {IntVal(2), IntVal(10), NaN, Str(<<"1", "x">>), Str(<<"B">>), Str(<<"a">>), Undefined}

CompareRecord(v) == IF v = Undefined THEN [name |-> Str(<<"X">>)] ELSE [name |-> Str(<<"X">>), roi |-> v]

Compare(order) ==
  /\ cOut[order] = <<>>
  /\ cOut' = [cOut EXCEPT ![order] =
                [i \in 1..3 |-> [j \in 1..3 |->
                   compareValues(cKey, order, cRecs[i], cRecs[j]).n]]]
  /\ UNCHANGED <<cRecs, cKey, appVars, headerVars, metricsVars>>

----------------------------------------------------------------------------
(* Specifications                                                          *)

AppInit(queryApis, windowApiBases, containers, searches, algos, sorts) ==
  /\ gpus = <<>>
  /\ lastDataSource = <<>>
  /\ queryApi \in queryApis
  /\ windowApiBase \in windowApiBases
  /\ searchInput \in searches
  /\ algoSelect \in algos
  /\ sortSelect \in sorts
  /\ tableContainer \in containers
  /\ result = <<>>
  /\ pc = "start"
  /\ candidates = <<>>
  /\ endpointIdx = 0
  /\ errors = <<>>
  /\ fetchLog = <<>>
  /\ thrown = <<>>

AppIdle == AppInit({Undefined}, {Undefined}, {"initial"}, {Undefined}, {Undefined}, {Undefined})

HeaderInit(searchInputs) ==
  /\ gpuData = <<>>
  /\ currentDisplayed = <<>>
  /\ currentSortKey = NoKey
  /\ currentSortOrder = "asc"
  /\ hSearchInput \in searchInputs
  /\ hPc = "start"

MetricsInit(inputs) ==
  /\ mGpu \in inputs
  /\ mOut = <<>>

CompareInit(values) ==
  /\ cRecs \in {<<CompareRecord(x), CompareRecord(y), CompareRecord(z)>> :
                  x \in values, y \in values, z \in values}
  /\ cKey = "roi"
  /\ cOut = [asc |-> <<>>, desc |-> <<>>]

\* The ranking page from DOMContentLoaded on: every configuration of the
\* sources, every outcome of every fetch, and the three controls.
InitPage ==
  /\ AppInit(QueryApiValues, WindowApiBaseValues, {"absent", "initial"},
             {Str(<<>>)}, {Str(<<>>)}, {SortBestValue})
  /\ HeaderInit({Undefined})
  /\ MetricsInit({Rtx3060})
  /\ CompareInit({Undefined})

NextPage ==
  \/ DOMContentLoaded
  \/ FetchRejects
  \/ FetchNotOk
  \/ FetchOk
  \/ JsonRejects
  \/ JsonNotArray
  \/ \E data \in SmallDataSets : JsonArray(data)
  \/ \E value \in {Str(<<>>), Str(<<"x", " ", "5">>)} : SearchInputEvent(value)
  \/ \E value \in {Str(<<>>), Str(Ethash)} : AlgoSelectEvent(value)
  \/ \E value \in {SortBestValue, SortHashrate, SortPrice} : SortSelectEvent(value)

SpecPage == InitPage /\ [][NextPage]_vars

\* One pass of applyFilters over everything it reads: the loaded array (every
\* data set, in every order) and the three controls (every value; Undefined when
\* the page lacks the control). The state is the page's when an event on a
\* control is dispatched after a load from /api/gpus; result and tableContainer
\* are what an earlier pass left, and applyFilters reads neither.
InitRank ==
  /\ gpus \in DataSets
  /\ lastDataSource = ApiGpusEndpoint
  /\ queryApi = Undefined
  /\ windowApiBase = Undefined
  /\ searchInput \in SearchValues \cup {Undefined}
  /\ algoSelect \in AlgoValues \cup {Undefined}
  /\ sortSelect \in SortValues \cup {Undefined}
  /\ tableContainer = "empty"
  /\ result = <<>>
  /\ pc = "event"
  /\ candidates = resolveApiCandidates(Undefined, Undefined)
  /\ endpointIdx = 1
  /\ errors = <<>>
  /\ fetchLog = <<ApiGpusEndpoint>>
  /\ thrown = <<>>
  /\ HeaderInit({Undefined})
  /\ MetricsInit({Rtx3060})
  /\ CompareInit({Undefined})

NextRank == ApplyFiltersListener

SpecRank == InitRank /\ [][NextRank]_vars

\* the header-sort page
InitHeader ==
  /\ AppIdle
  /\ HeaderInit({Undefined, Str(<<>>)})
  /\ MetricsInit({Rtx3060})
  /\ CompareInit({Undefined})

NextHeader ==
  \/ HDOMContentLoaded
  \/ HFetchResolves
  \/ HLoadFails
  \/ \E data \in ValidDataSets : HJsonResolves(data)
  \/ \E value \in QueryValues : HSearchInputEvent(value)
  \/ \E sortKey \in HeaderKeys \cup {NoKey} : HeaderClick(sortKey)

SpecHeader == InitHeader /\ [][NextHeader]_vars

\* gpuMetrics over a grid of records
InitMetrics ==
  /\ AppIdle
  /\ HeaderInit({Undefined})
  /\ MetricsInit(MetricInputs)
  /\ CompareInit({Undefined})

NextMetrics == ComputeMetrics

SpecMetrics == InitMetrics /\ [][NextMetrics]_vars

\* compareValues over every triple of values, in both directions
InitCompare ==
  /\ AppIdle
  /\ HeaderInit({Undefined})
  /\ MetricsInit({Rtx3060})
  /\ CompareInit(CompareValuesDomain)

NextCompare == \E order \in {"asc", "desc"} : Compare(order)

SpecCompare == InitCompare /\ [][NextCompare]_vars

----------------------------------------------------------------------------
(* Claims                                                                  *)

PowerOf(g) == ToNumber(g.power)
HasPositivePower(g) == NumLess(IntVal(0), PowerOf(g))
Computed == mOut # <<>>

\* 25 * d * dailyNet of mGpu as an integer, for a finite dailyProfitUsd n/d:
\* 25 * d * (n/d * 1000 - power/1000 * 24 * 80) = 25000 * n - 48 * power * d
ScaledNet ==
  25000 * mGpu.dailyProfitUsd.n - 48 * mGpu.power.n * mGpu.dailyProfitUsd.d

\* C1: for a record with power > 0 and a numeric daily profit, gpuMetrics gives
\* roiDays = +Infinity exactly when the daily net is <= 0 and priceArs / dailyNet
\* when it is > 0; roiDays is never negative and never NaN.
C1_RoiRule ==
  (Computed /\ HasPositivePower(mGpu) /\ IsFinite(mGpu.dailyProfitUsd)) =>
    LET roi == mOut[1].roiDays
    IN  /\ ScaledNet <= 0 => roi = PInf
        /\ ScaledNet > 0 =>
             roi = Num(25 * mGpu.dailyProfitUsd.d * mGpu.priceArs.n, ScaledNet)
        /\ roi.t \in {"num", "pinf"}
        /\ roi.t = "num" => roi.n >= 0

\* C1 witness: a record that breaks even exactly (daily net 0) got the sentinel
C1_Witness ==
  /\ Computed
  /\ HasPositivePower(mGpu)
  /\ IsFinite(mGpu.dailyProfitUsd)
  /\ ScaledNet = 0
  /\ mGpu.priceArs.n > 0
  /\ mOut[1].roiDays = PInf

Ranked == pc = "done"
Retained == filterGpus(gpus, searchInput, algoSelect)
RoiOf(g) == gpuMetrics(g).roiDays
ScoreOf(g) == gpuMetrics(g).score
IsPermutationOf(out, in) ==
  /\ Len(out) = Len(in)
  /\ \A g \in Elems(in) \cup Elems(out) :
       Cardinality({i \in 1..Len(out) : out[i] = g}) =
       Cardinality({i \in 1..Len(in) : in[i] = g})

\* C4: under sortKey "roi" the output holds the retained records with no record
\* of smaller roiDays after one of larger roiDays: every record of infinite ROI
\* comes after every record of finite ROI, and the finite ones are in
\* non-decreasing order, however many records have an infinite ROI.
C4_RoiAscendingInfiniteLast ==
  (Ranked /\ sortSelect = SortRoi) =>
    /\ IsPermutationOf(result, Retained)
    /\ \A i, j \in 1..Len(result) :
         i < j =>
           /\ RoiOf(result[i]).t \in {"num", "pinf"}
           /\ ~(RoiOf(result[i]) = PInf /\ IsFinite(RoiOf(result[j])))
           /\ (IsFinite(RoiOf(result[i])) /\ IsFinite(RoiOf(result[j]))) =>
                ~NumLess(RoiOf(result[j]), RoiOf(result[i]))

\* C4 witness: a ranking by roi of three records, loaded with an infinite-ROI
\* record first, in which two records have an infinite ROI and one a finite ROI
C4_Witness ==
  /\ Ranked
  /\ sortSelect = SortRoi
  /\ Len(result) = 3
  /\ RoiOf(gpus[1]) = PInf
  /\ IsFinite(RoiOf(result[1]))
  /\ RoiOf(result[2]) = PInf
  /\ RoiOf(result[3]) = PInf

SearchIsEmpty(raw) == raw = Undefined \/ raw.s = <<>>
AlgoIsEmpty == algoSelect = Undefined \/ algoSelect.s = <<>>
PassesAlgo(g) == AlgoIsEmpty \/ g.algo = algoSelect

\* C6 as claimed: a record is retained iff (searchText is empty or absent, or the
\* lower-cased name contains the lower-cased searchText) and (algoFilter is empty
\* or absent, or algo equals it), whatever whitespace searchText begins or ends with.
C6_Original_UntrimmedSearch ==
  Ranked =>
    \A g \in Elems(gpus) :
      g \in Elems(result) <=>
        /\ SearchIsEmpty(searchInput)
           \/ includes(toLowerCase(g.name.s), toLowerCase(searchInput.s))
        /\ PassesAlgo(g)

TrimmedSearch == IF searchInput = Undefined THEN <<>> ELSE trim(toLowerCase(searchInput.s))

\* C6 amended: a record is retained iff (searchText, lower-cased and with its
\* leading and trailing whitespace removed, is empty, or the lower-cased name
\* contains it) and (algoFilter is empty or absent, or algo equals it); the
\* retained set is the intersection of the sets retained by the search text alone
\* and by the algorithm alone.
C6_TrimmedSearchAndAlgo ==
  Ranked =>
    /\ \A g \in Elems(gpus) :
         g \in Elems(result) <=>
           /\ TrimmedSearch = <<>> \/ includes(toLowerCase(g.name.s), TrimmedSearch)
           /\ PassesAlgo(g)
    /\ Elems(result) =
         Elems(filterGpus(gpus, searchInput, Undefined))
           \cap Elems(filterGpus(gpus, Undefined, algoSelect))

\* C6 witness: a search text with leading whitespace and an algorithm are both
\* set, and each of them alone would have retained a record that the two
\* together drop
C6_Witness ==
  /\ Ranked
  /\ searchInput = Str(<<" ", "R", "T", "X">>)
  /\ algoSelect = Str(Ethash)
  /\ result # <<>>
  /\ \E g \in Elems(gpus) :
       g \notin Elems(result) /\ g \in Elems(filterGpus(gpus, searchInput, Undefined))
  /\ \E g \in Elems(gpus) :
       g \notin Elems(result) /\ g \in Elems(filterGpus(gpus, Undefined, algoSelect))

SortIsAbsentOrUnknown ==
  sortSelect \notin {SortHashrate, SortEfficiency, SortPrice, SortRoi, SortBestValue}

\* C9 as claimed: with the sort control absent or holding an unrecognized key,
\* the pass completes and its output is an output of sortKey "bestValue" on the
\* same records and filters: the retained records in non-increasing score order,
\* the first one of maximum score.
C9_DefaultIsBestValue ==
  (Ranked /\ SortIsAbsentOrUnknown) =>
    /\ result \in applyFiltersOutcomes(gpus, searchInput, algoSelect, SortBestValue)
    /\ IsPermutationOf(result, Retained)
    /\ \A i, j \in 1..Len(result) :
         i < j => ~NumLess(ScoreOf(result[i]), ScoreOf(result[j]))
    /\ \A g \in Elems(Retained) : ~NumLess(ScoreOf(result[1]), ScoreOf(g))

\* the endpoints the documentation promises, in its order: the explicit
\* override (the ?api= parameter, else window.BESTVALUEGPU_API_BASE) when one
\* is configured, then /api/gpus, then data/gpus.json
ExplicitBase == IF Truthy(queryApi) THEN queryApi ELSE windowApiBase
ExplicitEndpoint ==
  (IF ExplicitBase.s[Len(ExplicitBase.s)] = "/"
     THEN SubSeq(ExplicitBase.s, 1, Len(ExplicitBase.s) - 1)
     ELSE ExplicitBase.s) \o <<"/", "g", "p", "u", "s">>
PromisedSources ==
  IF Truthy(ExplicitBase) /\ ExplicitEndpoint # ApiGpusEndpoint
    THEN <<ExplicitEndpoint, ApiGpusEndpoint, DataFileEndpoint>>
    ELSE <<ApiGpusEndpoint, DataFileEndpoint>>
FailureReasons ==
  {"Failed to fetch", "404 Not Found", "Unexpected token", "Formato de datos invalido"}

\* C7: the sources are fetched strictly in the promised order, each distinct
\* endpoint at most once; a source is fetched only after every earlier one has
\* failed; on success lastDataSource names the source that answered, the first
\* that did not fail; an error is thrown only when every source has failed, and
\* it lists every attempted endpoint with its failure reason in attempt order.
C7_OrderedFallback ==
  LET n == Len(fetchLog)
  IN  /\ n <= Len(PromisedSources)
      /\ fetchLog = SubSeq(PromisedSources, 1, n)
      /\ \A i, j \in 1..n : i # j => fetchLog[i] # fetchLog[j]
      /\ \A i \in 1..Len(errors) :
           errors[i].endpoint = PromisedSources[i] /\ errors[i].message \in FailureReasons
      /\ pc \in {"awaitFetch", "awaitJson", "done"} =>
           /\ Len(errors) = n - 1
           /\ thrown = <<>>
      /\ pc = "done" => lastDataSource = PromisedSources[n]
      /\ pc # "done" => lastDataSource = <<>> /\ gpus = <<>>
      /\ pc = "failed" =>
           /\ n = Len(PromisedSources)
           /\ Len(thrown) = n
           /\ thrown = errors

\* C7 witness: with an override configured, the first two sources failed in
\* different ways and the third, data/gpus.json, answered
C7_Witness ==
  /\ pc = "done"
  /\ Len(PromisedSources) = 3
  /\ Len(errors) = 2
  /\ errors[1].message # errors[2].message
  /\ lastDataSource = DataFileEndpoint
  /\ gpus # <<>>

\* C2 as claimed: no record with power <= 0 (or without one of the numeric
\* fields) is in the output of applyFilters.
C2_InvalidRecordsExcluded ==
  Ranked =>
    \A g \in Elems(result) :
      /\ HasPositivePower(g)
      /\ \A f \in {"hashrate", "power", "priceArs", "dailyProfitUsd"} : IsNumberType(Get(g, f))

\* C3 as claimed: under sortKey "hashrate" the output is in non-increasing
\* hashrate order, under sortKey "price" in non-decreasing priceArs order.
C3_SortedByRawField ==
  Ranked =>
    \A i, j \in 1..Len(result) :
      i < j =>
        /\ sortSelect = SortHashrate => ~NumLess(result[i].hashrate, result[j].hashrate)
        /\ sortSelect = SortPrice => ~NumLess(result[j].priceArs, result[i].priceArs)

HLoaded == hPc = "done"

\* C5 as claimed: enrichGpuData gives a record whose daily profit in local
\* currency is zero or negative the positive-infinity sentinel as roi.
C5_HeaderRoiSentinel ==
  \A g \in Elems(gpuData) :
    ~NumLess(IntVal(0), JsMul(g.dailyProfitUsd, IntVal(conversionRate))) => g.roi = PInf

\* what the current inputs alone determine: gpuData filtered by the current
\* search text and, when a sort key is set, sorted from that order
HQuery == IF hSearchInput = Undefined THEN Str(<<>>) ELSE hSearchInput
HExpectedDisplays ==
  IF currentSortKey # NoKey
    THEN sortByKeyOutcomes(searchFilter(gpuData, HQuery), currentSortKey, currentSortOrder)
    ELSE {searchFilter(gpuData, HQuery)}

\* C10 as claimed: once the data is loaded, currentDisplayed is gpuData filtered
\* by the current search text and, when currentSortKey is set, stably sorted from
\* gpuData's order by compareValues(currentSortKey, currentSortOrder), whatever
\* the order of the events before.
C10_DisplayDependsOnInputsOnly ==
  HLoaded => currentDisplayed \in HExpectedDisplays

BothCompared == cOut.asc # <<>> /\ cOut.desc # <<>>

\* C8 as claimed: for every triple of values (numbers, strings, NaN, missing),
\* compareValues is two-way consistent, transitive, and its desc comparator is
\* the negation of its asc comparator.
C8_CompareValuesTotalOrder ==
  BothCompared =>
    /\ \A i, j \in 1..3 : cOut.asc[i][j] = -cOut.asc[j][i]
    /\ \A i, j \in 1..3 : cOut.desc[i][j] = -cOut.asc[i][j]
    /\ \A i, j, k \in 1..3 :
         (cOut.asc[i][j] <= 0 /\ cOut.asc[j][k] <= 0) => cOut.asc[i][k] <= 0

=============================================================================
